---- MODULE Spec2Model ----
(***************************************************************************)
(* Umvuzo invoicing: the record store and the request handlers of          *)
(* app/main.py that work on clients, quotes, invoices, services and        *)
(* password reset tokens.                                                  *)
(*                                                                         *)
(* The store is the committed content of the database.  Every request runs *)
(* in its own SQLAlchemy session (app/database.py get_db), i.e. its own    *)
(* transaction: rows a request has flushed but not committed are kept in   *)
(* the request's own state (req) and become part of db at the commit.      *)
(* The database is the PostgreSQL deployment of migrate.py at its default  *)
(* READ COMMITTED level: SELECT ... FOR UPDATE takes the row lock until    *)
(* the transaction ends, an UPDATE of a locked row waits, and sequences    *)
(* are never rolled back.  Float columns are modelled by integers.         *)
(***************************************************************************)
EXTENDS Integers, Sequences, FiniteSets, TLC

VARIABLES db, pc, req, nreq

vars == <<db, pc, req, nreq>>

\* ------------------------------------------------------------------ bounds
\* Requests served after the initial state.
MaxRequests == 2

\* expires_at = utcnow() + timedelta(minutes=30); the clock is the count of requests
TokenLife == 30

\* len(new_password) < 8
MinPasswordLen == 8

\* Concurrent request handlers (FastAPI runs each def-handler in a worker thread).
Procs == {1, 2}

\* ------------------------------------------------------------- users, roles
ADMIN == "admin"
USER == "user"

\* users table: the admin of create_default_admin and a regular user.
Users == << [id |-> 1, role |-> ADMIN, username |-> "admin@umvuzo"],
            [id |-> 2, role |-> USER, username |-> "user@umvuzo"] >>

UserIds == {Users[i].id : i \in DOMAIN Users}

RoleOf(user_id) == (CHOOSE u \in {Users[i] : i \in DOMAIN Users} : u.id = user_id).role

\* ------------------------------------------------------------------ helpers
Rows(table) == {table[i] : i \in DOMAIN table}

ById(table, id) == CHOOSE r \in Rows(table) : r.id = id

Exists(table, id) == \E r \in Rows(table) : r.id = id

SetMax(S) == CHOOSE m \in S : \A x \in S : x <= m

\* table with the row whose id is id replaced by row
Replace(table, id, row) == [i \in DOMAIN table |-> IF table[i].id = id THEN row ELSE table[i]]

\* line = unit_cost * quantity
LineAmount(item) == item.unit_cost * item.quantity

\* total = 0; for item in items: total += line
RECURSIVE SumLines(_)
SumLines(items) == IF items = <<>> THEN 0
                   ELSE SumLines(SubSeq(items, 1, Len(items) - 1)) + LineAmount(items[Len(items)])

\* db.query(QuoteItem).filter(QuoteItem.quote_id == quote.id).all()
QuoteItemsOf(d, quote_id) == SelectSeq(d.quote_items, LAMBDA r : r.quote_id = quote_id)

\* db.query(InvoiceItem).filter(InvoiceItem.invoice_id == invoice.id).all()
InvoiceItemsOf(d, invoice_id) == SelectSeq(d.invoice_items, LAMBDA r : r.invoice_id = invoice_id)

\* the value columns of an item row
ItemValue(r) == [description |-> r.description, unit_cost |-> r.unit_cost, quantity |-> r.quantity]

ItemValues(rows) == [i \in DOMAIN rows |-> ItemValue(rows[i])]

\* ------------------------------------------------------------------ strings
\* The characters of the strings requests carry.
Chars(s) ==
    CASE s = "Acme Corp"     -> <<"A","c","m","e"," ","C","o","r","p">>
      [] s = "Beta Ltd"      -> <<"B","e","t","a"," ","L","t","d">>
      [] s = "Acme Services" -> <<"A","c","m","e"," ","S","e","r","v","i","c","e","s">>
      [] s = "A.C. Motors"   -> <<"A",".","C","."," ","M","o","t","o","r","s">>
      [] s = "O2"            -> <<"O","2">>
      [] s = "s3cret"        -> <<"s","3","c","r","e","t">>
      [] s = "s3cret-pass"   -> <<"s","3","c","r","e","t","-","p","a","s","s">>
      [] s = "s3cret-word"   -> <<"s","3","c","r","e","t","-","w","o","r","d">>

LowerCase == <<"a","b","c","d","e","f","g","h","i","j","k","l","m",
               "n","o","p","q","r","s","t","u","v","w","x","y","z">>
UpperCase == <<"A","B","C","D","E","F","G","H","I","J","K","L","M",
               "N","O","P","Q","R","S","T","U","V","W","X","Y","Z">>
Digits == <<"0","1","2","3","4","5","6","7","8","9">>

\* [A-Za-z]
IsLetter(c) == \E i \in DOMAIN LowerCase : c = LowerCase[i] \/ c = UpperCase[i]

\* str.upper() on one character
Upper(c) == IF \E i \in DOMAIN LowerCase : c = LowerCase[i]
            THEN UpperCase[CHOOSE i \in DOMAIN LowerCase : c = LowerCase[i]]
            ELSE c

IsDigit(c) == \E i \in DOMAIN Digits : c = Digits[i]

DigitValue(c) == (CHOOSE i \in DOMAIN Digits : c = Digits[i]) - 1

\* int(text) succeeds: a non-empty run of digits
CanParseInt(text) == text # <<>> /\ \A i \in DOMAIN text : IsDigit(text[i])

\* int(text)
RECURSIVE ParseInt(_)
ParseInt(text) == IF text = <<>> THEN 0
                  ELSE 10 * ParseInt(SubSeq(text, 1, Len(text) - 1)) + DigitValue(text[Len(text)])

\* str(n)
RECURSIVE Decimal(_)
Decimal(n) == IF n < 10 THEN <<Digits[n + 1]>>
              ELSE Decimal(n \div 10) \o <<Digits[(n % 10) + 1]>>

\* Fault: the number appended without zero padding.
FormatUnpadded(n) == Decimal(n)

\* f"{n:03d}"
Format03d(n) == IF Len(Decimal(n)) >= 3 THEN Decimal(n)
                ELSE SubSeq(<<"0","0","0">>, 1, 3 - Len(Decimal(n))) \o Decimal(n)

\* ------------------------------------------------------------ access policy
\* Fault: the ownership check left out.
CanAccessAnyUser(user_id, created_by_id) == TRUE

\* current_user.role != ADMIN and entity.created_by_id != current_user.id -> 403
CanAccess(user_id, created_by_id) == RoleOf(user_id) = ADMIN \/ created_by_id = user_id

\* ---------------------------------------------------------------- sequencer
\* func.max(Quote.quote_number) of the client; 1 if not last else last + 1
NextQuoteNumber(d, client_id) ==
    LET nums == {q.quote_number : q \in {r \in Rows(d.quotes) : r.client_id = client_id}}
    IN  IF nums = {} THEN 1 ELSE SetMax(nums) + 1

\* Fault: the filter on Invoice.client_id left out of the query.
NextInvoiceNumberAllClients(d, client_id) ==
    LET nums == {v.invoice_number : v \in Rows(d.invoices)}
    IN  IF nums = {} THEN 1 ELSE SetMax(nums) + 1

\* func.max(Invoice.invoice_number) of the client; 1 if not last_inv else last_inv + 1
NextInvoiceNumber(d, client_id) ==
    LET nums == {v.invoice_number : v \in {r \in Rows(d.invoices) : r.client_id = client_id}}
    IN  IF nums = {} THEN 1 ELSE SetMax(nums) + 1

\* What the properties need to know of the numbers handed out: kind, client and
\* number of every allocation, kept whether or not the request then commits.
\* allocated is no table of the program.
Allocate(d, kind, client_id, num) ==
    [d EXCEPT !.allocated = Append(@, [kind |-> kind, client_id |-> client_id, num |-> num])]

\* -------------------------------------------------------------- client code
\* clean_name = re.sub(r'[^A-Za-z]', '', name).upper()
CleanName(name) ==
    LET letters == SelectSeq(Chars(name), IsLetter)
    IN  [i \in DOMAIN letters |-> Upper(letters[i])]

\* if len(clean_name) < 3: clean_name = (clean_name + "XXX")[:3]; base_code = clean_name[:3]
BaseCode(name) ==
    LET clean_name == CleanName(name)
        padded     == IF Len(clean_name) < 3
                      THEN SubSeq(clean_name \o <<"X","X","X">>, 1, 3) ELSE clean_name
    IN  SubSeq(padded, 1, 3)

\* Client.client_code.like(f"{base_code}%")
Like(client_code, base_code) ==
    Len(client_code) >= Len(base_code) /\ SubSeq(client_code, 1, Len(base_code)) = base_code

\* c.client_code[3:]
Suffix(client_code) == SubSeq(client_code, 4, Len(client_code))

\* main.py 431-443: one more than the highest number among the codes that start
\* with base_code, 1 when there is none
NextClientNumber(d, base_code) ==
    LET existing == {c \in Rows(d.clients) : Like(c.client_code, base_code)}
        numbers  == {ParseInt(Suffix(c.client_code)) :
                        c \in {e \in existing : CanParseInt(Suffix(e.client_code))}}
    IN  IF existing # {} /\ numbers # {} THEN SetMax(numbers) + 1 ELSE 1

\* client_code = f"{base_code}{next_num:03d}"
ClientCode(d, name) == BaseCode(name) \o Format03d(NextClientNumber(d, BaseCode(name)))

\* pwd_context.hash(password): the argon2 hash of the password
HashPassword(password) == <<"argon2", password>>

\* ---------------------------------------------------------------- audit log
\* log_audit_action: db.add(AuditLog(...)); db.commit()
LogAuditAction(d, user_id, action, entity_type, entity_id) ==
    [d EXCEPT !.audit_logs = Append(@, [user_id |-> user_id, action |-> action,
                                        entity_type |-> entity_type, entity_id |-> entity_id])]

\* ------------------------------------------------------------- transactions
\* Fault: quote.total left at the value the quote was flushed with.
CreateQuoteCommitTotalUnset(d, quote_id, next_num, user_id, client_id, items) ==
    LET quote == [id |-> quote_id, quote_number |-> next_num, client_id |-> client_id,
                  total |-> 0, status |-> "Draft", converted |-> FALSE,
                  created_by_id |-> user_id]
        rows  == [i \in DOMAIN items |->
                    [id |-> Len(d.quote_items) + i, quote_id |-> quote_id,
                     description |-> items[i].description,
                     unit_cost |-> items[i].unit_cost, quantity |-> items[i].quantity]]
    IN  [d EXCEPT !.quotes = Append(@, quote), !.quote_items = @ \o rows]

\* The rows a committed create_quote adds: the Quote flushed with total 0 and
\* then given total, and one QuoteItem per item, in the order of the list.
CreateQuoteCommit(d, quote_id, next_num, user_id, client_id, items) ==
    LET quote == [id |-> quote_id, quote_number |-> next_num, client_id |-> client_id,
                  total |-> SumLines(items), status |-> "Draft", converted |-> FALSE,
                  created_by_id |-> user_id]
        rows  == [i \in DOMAIN items |->
                    [id |-> Len(d.quote_items) + i, quote_id |-> quote_id,
                     description |-> items[i].description,
                     unit_cost |-> items[i].unit_cost, quantity |-> items[i].quantity]]
    IN  [d EXCEPT !.quotes = Append(@, quote), !.quote_items = @ \o rows]

\* Fault: the items copied last to first.
CopyItemsNewestFirst(d, invoice_id, quote_items) ==
    [i \in DOMAIN quote_items |->
        [id |-> Len(d.invoice_items) + i, invoice_id |-> invoice_id,
         description |-> quote_items[Len(quote_items) + 1 - i].description,
         unit_cost |-> quote_items[Len(quote_items) + 1 - i].unit_cost,
         quantity |-> quote_items[Len(quote_items) + 1 - i].quantity]]

\* InvoiceItem(invoice_id, description, unit_cost, quantity) for item in quote_items
CopyItems(d, invoice_id, quote_items) ==
    [i \in DOMAIN quote_items |->
        [id |-> Len(d.invoice_items) + i, invoice_id |-> invoice_id,
         description |-> quote_items[i].description,
         unit_cost |-> quote_items[i].unit_cost, quantity |-> quote_items[i].quantity]]

\* Fault: invoice.total left at the value the invoice was flushed with.
InvoiceTotalPlaceholder(quote_items) == 0

\* invoice.total = total, accumulated over the quote's items
InvoiceTotal(quote_items) == SumLines(quote_items)

\* Fault: the invoice given the creator of the quote, not the acting user.
ConvertCommitAsQuoteCreator(d, invoice_id, next_inv, user_id, quote_id) ==
    LET quote       == ById(d.quotes, quote_id)
        quote_items == QuoteItemsOf(d, quote_id)
        invoice     == [id |-> invoice_id, invoice_number |-> next_inv,
                        client_id |-> quote.client_id, total |-> InvoiceTotal(quote_items),
                        paid |-> FALSE, paid_at |-> 0, created_by_id |-> quote.created_by_id,
                        marked_paid_by_id |-> 0]
    IN  [d EXCEPT !.invoices = Append(@, invoice),
                  !.conversions = Append(@, [invoice_id |-> invoice_id, quote_id |-> quote_id]),
                  !.invoice_items = @ \o CopyItems(d, invoice_id, quote_items),
                  !.quotes = Replace(@, quote_id, [quote EXCEPT !.converted = TRUE])]

\* The rows a committed convert_quote adds and changes: the Invoice flushed with
\* total 0 and then given total, its InvoiceItems, and quote.converted = True.
\* conversions is no table of the program: it records, for the properties, which
\* quote each invoice was made from (the Invoice row keeps no such reference).
ConvertCommit(d, invoice_id, next_inv, user_id, quote_id) ==
    LET quote       == ById(d.quotes, quote_id)
        quote_items == QuoteItemsOf(d, quote_id)
        invoice     == [id |-> invoice_id, invoice_number |-> next_inv,
                        client_id |-> quote.client_id, total |-> InvoiceTotal(quote_items),
                        paid |-> FALSE, paid_at |-> 0, created_by_id |-> user_id,
                        marked_paid_by_id |-> 0]
    IN  [d EXCEPT !.invoices = Append(@, invoice),
                  !.conversions = Append(@, [invoice_id |-> invoice_id, quote_id |-> quote_id]),
                  !.invoice_items = @ \o CopyItems(d, invoice_id, quote_items),
                  !.quotes = Replace(@, quote_id, [quote EXCEPT !.converted = TRUE])]

\* Fault: a status change that also clears the converted flag.
SetStatusClearsConverted(d, quote_id, status) ==
    [d EXCEPT !.quotes = Replace(@, quote_id,
        [ById(@, quote_id) EXCEPT !.status = status, !.converted = FALSE])]

\* quote.status = "Approved" / "Sent"; db.commit()
SetStatus(d, quote_id, status) ==
    [d EXCEPT !.quotes = Replace(@, quote_id, [ById(@, quote_id) EXCEPT !.status = status])]

\* Fault: the user who marks the invoice paid written to created_by_id as well.
SetPaidAndCreator(d, invoice_id, user_id, now) ==
    [d EXCEPT !.invoices = Replace(@, invoice_id,
        [ById(@, invoice_id) EXCEPT !.paid = TRUE, !.paid_at = now,
                                    !.marked_paid_by_id = user_id,
                                    !.created_by_id = user_id])]

\* invoice.paid = True; invoice.paid_at = utcnow(); invoice.marked_paid_by_id = user
SetPaid(d, invoice_id, user_id, now) ==
    [d EXCEPT !.invoices = Replace(@, invoice_id,
        [ById(@, invoice_id) EXCEPT !.paid = TRUE, !.paid_at = now,
                                    !.marked_paid_by_id = user_id])]

\* client.name = name (and the other form fields); db.commit()
SetClientName(d, client_id, name) ==
    [d EXCEPT !.clients = Replace(@, client_id, [ById(@, client_id) EXCEPT !.name = name])]

\* ---------------------------------------------------------------- documents
\* The item table and the totals a builder lays out: per cell the value that is
\* then formatted to text (amounts to two decimals).
\* Fault: the VAT switch turned on.
VatSwitchedOn == TRUE

\* VAT_ENABLED = False
VAT_ENABLED == FALSE

\* VAT_RATE = 0.15, in percent
VAT_RATE == 15

\* pdf.py 202-211: for idx, item in enumerate(items, 1): amount = unit_cost * quantity
DocumentRows(items) ==
    [idx \in DOMAIN items |->
        [idx |-> idx, description |-> items[idx].description,
         unit_cost |-> items[idx].unit_cost, quantity |-> items[idx].quantity,
         amount |-> items[idx].unit_cost * items[idx].quantity]]

\* pdf.py 200-204: total = 0; total += amount
RECURSIVE DocumentTotal(_)
DocumentTotal(rows) == IF rows = <<>> THEN 0
                       ELSE DocumentTotal(SubSeq(rows, 1, Len(rows) - 1)) + rows[Len(rows)].amount

\* pdf.py 242-254: Subtotal, the VAT row when the switch is on, and the total
DocumentTotals(doc_type, total) ==
    LET label == IF doc_type = "invoice" THEN "TOTAL DUE:" ELSE "TOTAL:"
        vat_amount == (total * VAT_RATE) \div 100
    IN  IF VAT_ENABLED
        THEN << [label |-> "Subtotal:", amount |-> total],
                [label |-> "VAT (15%):", amount |-> vat_amount],
                [label |-> label, amount |-> total + vat_amount] >>
        ELSE << [label |-> "Subtotal:", amount |-> total],
                [label |-> label, amount |-> total] >>

\* pdf.py generate_document_pdf: the item table and the totals table
GenerateDocumentPdf(doc_type, items) ==
    [rows |-> DocumentRows(items),
     totals |-> DocumentTotals(doc_type, DocumentTotal(DocumentRows(items)))]

\* pdf.py generate_quote_pdf, the builder quote_pdf and email_quote call
GenerateQuotePdf(items) == GenerateDocumentPdf("quote", items)

\* invoice_pdf.py 84-93: the rows carry no number
InvoiceRows(items) ==
    [i \in DOMAIN items |->
        [description |-> items[i].description,
         unit_cost |-> items[i].unit_cost, quantity |-> items[i].quantity,
         amount |-> items[i].unit_cost * items[i].quantity]]

\* invoice_pdf.py generate_invoice_pdf, the builder invoice_pdf and email_invoice
\* call: the item table and the one TOTAL row
GenerateInvoicePdf(items) ==
    [rows |-> InvoiceRows(items),
     totals |-> << [label |-> "TOTAL", amount |-> DocumentTotal(InvoiceRows(items))] >>]

\* no document built
NoDoc == [rows |-> <<>>, totals |-> <<>>]

\* ------------------------------------------------------------ initial store
\* The item lists a quote form submits.
ListA == << [description |-> "Setup", unit_cost |-> 100, quantity |-> 2],
            [description |-> "Support", unit_cost |-> 50, quantity |-> 1] >>
ListB == << [description |-> "Support", unit_cost |-> 50, quantity |-> 3] >>
ListC == << [description |-> "Callout", unit_cost |-> 0, quantity |-> 1] >>

ItemLists == {ListA, ListB, ListC}

\* The store with the users and clients in place and no document yet.
EmptyDb ==
    [clients |-> << [id |-> 1, name |-> "Acme Corp", created_by_id |-> 2,
                     client_code |-> BaseCode("Acme Corp") \o Format03d(1)],
                    [id |-> 2, name |-> "Beta Ltd", created_by_id |-> 1,
                     client_code |-> BaseCode("Beta Ltd") \o Format03d(1)] >>,
     quotes |-> <<>>, quote_items |-> <<>>, invoices |-> <<>>, invoice_items |-> <<>>,
     audit_logs |-> << [user_id |-> 2, action |-> "client_created", entity_type |-> "client", entity_id |-> 1],
                       [user_id |-> 1, action |-> "client_created", entity_type |-> "client", entity_id |-> 2] >>,
     conversions |-> <<>>, quote_id_seq |-> 1, invoice_id_seq |-> 1,
     client_id_seq |-> 3, allocated |-> <<>>,
     \* seed_services (the first of the seeded services)
     services |-> << [id |-> 1, name |-> "IT Consultation", price |-> 450, is_active |-> TRUE] >>,
     \* users.password
     passwords |-> [u \in UserIds |-> HashPassword("s3cret-word")],
     \* password_reset_tokens: of user 2 a token superseded by a later one that is
     \* still good, of user 1 one that has expired
     tokens |-> << [id |-> 1, user_id |-> 2, expires_at |-> TokenLife, used |-> TRUE],
                   [id |-> 2, user_id |-> 2, expires_at |-> TokenLife, used |-> FALSE],
                   [id |-> 3, user_id |-> 1, expires_at |-> 0, used |-> FALSE] >>,
     \* password_resets is no table of the program: the token of every password
     \* change made by reset_password
     password_resets |-> <<>>]

\* One earlier request, run alone from its first statement to its last: the same
\* commits and audit entries as the handlers below, with no other request between.
RunAlone(d, r) ==
    CASE r.op = "create_quote" ->
           LogAuditAction(
             CreateQuoteCommit(Allocate([d EXCEPT !.quote_id_seq = @ + 1], "quote", r.client_id,
                                        NextQuoteNumber(d, r.client_id)),
                               d.quote_id_seq,
                               NextQuoteNumber(d, r.client_id), r.user_id, r.client_id, r.items),
             r.user_id, "quote_created", "quote", d.quote_id_seq)
      [] r.op = "approve_quote" ->
           LogAuditAction(SetStatus(d, r.entity_id, "Approved"), r.user_id,
                          "quote_approved", "quote", r.entity_id)
      [] r.op = "mark_sent" ->
           LogAuditAction(SetStatus(d, r.entity_id, "Sent"), r.user_id,
                          "quote_sent", "quote", r.entity_id)
      [] r.op = "convert_quote" ->
           LogAuditAction(
             ConvertCommit(Allocate([d EXCEPT !.invoice_id_seq = @ + 1], "invoice",
                                    ById(d.quotes, r.entity_id).client_id,
                                    NextInvoiceNumber(d, ById(d.quotes, r.entity_id).client_id)),
                           d.invoice_id_seq,
                           NextInvoiceNumber(d, ById(d.quotes, r.entity_id).client_id),
                           r.user_id, r.entity_id),
             r.user_id, "quote_converted", "invoice", d.invoice_id_seq)

RECURSIVE RunAll(_, _)
RunAll(d, rs) == IF rs = <<>> THEN d ELSE RunAll(RunAlone(d, Head(rs)), Tail(rs))

Earlier(op, user_id, client_id, entity_id, items) ==
    [op |-> op, user_id |-> user_id, client_id |-> client_id, entity_id |-> entity_id,
     items |-> items]

\* Histories of earlier requests the checked runs start from.
Histories ==
    { <<>>,
      \* a Sent quote of the admin for client 2
      << Earlier("create_quote", 1, 2, 0, ListB), Earlier("mark_sent", 1, 0, 1, <<>>) >>,
      \* an Approved quote of user 2
      << Earlier("create_quote", 2, 1, 0, ListA), Earlier("approve_quote", 2, 0, 1, <<>>) >>,
      \* two Approved quotes for the same client
      << Earlier("create_quote", 2, 1, 0, ListA), Earlier("approve_quote", 2, 0, 1, <<>>),
         Earlier("create_quote", 1, 1, 0, ListB), Earlier("approve_quote", 1, 0, 2, <<>>) >>,
      \* two Approved quotes for two clients
      << Earlier("create_quote", 2, 1, 0, ListA), Earlier("approve_quote", 2, 0, 1, <<>>),
         Earlier("create_quote", 1, 2, 0, ListA), Earlier("approve_quote", 1, 0, 2, <<>>) >>,
      \* a converted quote, and an Approved one for the same client
      << Earlier("create_quote", 2, 1, 0, ListB), Earlier("approve_quote", 1, 0, 1, <<>>),
         Earlier("convert_quote", 1, 0, 1, <<>>),
         Earlier("create_quote", 2, 1, 0, ListA), Earlier("approve_quote", 2, 0, 2, <<>>) >> }

InitialStores == {RunAll(EmptyDb, h) : h \in Histories}

\* ------------------------------------------------------------ request state
NoReq == [op |-> "none", user_id |-> 0, entity_id |-> 0, client_id |-> 0, num |-> 0,
          new_id |-> 0, items |-> <<>>, seen |-> "", resp |-> "",
          name |-> "", code |-> <<>>, password |-> "", matched |-> {}, doc |-> NoDoc]

Init == /\ db \in InitialStores
        /\ pc = [p \in Procs |-> "idle"]
        /\ req = [p \in Procs |-> NoReq]
        /\ nreq = 0

\* A handler that has finished sends its response before any other handler takes
\* its next step: Return changes nothing another request reads.
NoneDone == \A o \in Procs : pc[o] # "done"

\* the handler of p is at label
At(p, labels) == pc[p] \in labels /\ NoneDone

\* a request arrives and is given to the first idle worker thread
Accept(p) ==
    /\ At(p, {"idle"})
    /\ \A o \in Procs : o < p => pc[o] # "idle"
    /\ nreq < MaxRequests
    /\ nreq' = nreq + 1

\* the handler returns resp; the session is closed
Respond(p, r, resp) ==
    /\ pc' = [pc EXCEPT ![p] = "done"]
    /\ req' = [req EXCEPT ![p] = [r EXCEPT !.resp = resp]]

\* the handler goes on to its next statement
Goto(p, r, label) ==
    /\ pc' = [pc EXCEPT ![p] = label]
    /\ req' = [req EXCEPT ![p] = r]

\* the thread is free for the next request
Return(p) ==
    /\ pc[p] = "done"
    /\ pc' = [pc EXCEPT ![p] = "idle"]
    /\ req' = [req EXCEPT ![p] = NoReq]
    /\ UNCHANGED <<db, nreq>>

\* the ids a request can name: those handed out so far (the row of an id whose
\* insert was rolled back is not there)
ClientIds == 1 .. (db.client_id_seq - 1)
QuoteIds == 1 .. (db.quote_id_seq - 1)
InvoiceIds == 1 .. (db.invoice_id_seq - 1)

\* Fault: the quote read without with_for_update().
NoRowLock(p, quote_id) == FALSE

\* query(Quote).filter(Quote.id == quote_id).with_for_update(): the row is locked
\* by another request's open transaction, and this SELECT waits
QuoteRowLocked(p, quote_id) ==
    \E o \in Procs \ {p} : pc[o] = "cv_flushed" /\ req[o].entity_id = quote_id

\* ------------------------------------------------------------ create_quote
\* What the form posts as items_data: a JSON list of items, an empty list, or
\* text that json.loads rejects.
ItemsData == {[json_ok |-> TRUE, items |-> l] : l \in ItemLists \cup {<<>>}}
             \cup {[json_ok |-> FALSE, items |-> <<>>]}

\* Fault: the check for an empty or unreadable item list left out.
CreateQuoteRefusalAnyItems(d, user_id, client_id, data) ==
    IF \/ ~Exists(d.clients, client_id)
       \/ ~CanAccess(user_id, ById(d.clients, client_id).created_by_id) THEN "403"
    ELSE ""

\* main.py 580-591: "" when the request may go on
CreateQuoteRefusal(d, user_id, client_id, data) ==
    IF \/ ~Exists(d.clients, client_id)
       \/ ~CanAccess(user_id, ById(d.clients, client_id).created_by_id) THEN "403"
    ELSE IF ~data.json_ok THEN "Invalid data."
    ELSE IF data.items = <<>> THEN "Add at least one item."
    ELSE ""

\* main.py 580-602: client and ownership check, json.loads, the client's next
\* quote number, Quote(total=0) added and flushed (its id drawn from the sequence).
CreateQuoteBegin(p) ==
    /\ Accept(p)
    /\ \E user_id \in UserIds, client_id \in ClientIds, data \in ItemsData :
         LET r == [NoReq EXCEPT !.op = "create_quote", !.user_id = user_id,
                                !.client_id = client_id]
         IN  IF CreateQuoteRefusal(db, user_id, client_id, data) # ""
             THEN Respond(p, r, CreateQuoteRefusal(db, user_id, client_id, data))
                  /\ UNCHANGED db
             ELSE /\ Goto(p, [r EXCEPT !.items = data.items,
                                       !.num = NextQuoteNumber(db, client_id),
                                       !.new_id = db.quote_id_seq], "cq_flushed")
                  /\ db' = Allocate([db EXCEPT !.quote_id_seq = @ + 1], "quote", client_id,
                                     NextQuoteNumber(db, client_id))

\* main.py 604-614: the items are added, quote.total is set, db.commit()
CreateQuoteEnd(p) ==
    /\ At(p, {"cq_flushed"})
    /\ db' = CreateQuoteCommit(db, req[p].new_id, req[p].num, req[p].user_id,
                               req[p].client_id, req[p].items)
    /\ Goto(p, req[p], "cq_committed")
    /\ UNCHANGED nreq

\* main.py 616-618: the audit entry, written and committed after the quote
CreateQuoteAudit(p) ==
    /\ At(p, {"cq_committed"})
    /\ db' = LogAuditAction(db, req[p].user_id, "quote_created", "quote", req[p].new_id)
    /\ Respond(p, req[p], "/quotes-page")
    /\ UNCHANGED nreq

\* Fault: db.commit() where the except block should roll back, so that the row
\* flushed with total 0 stays.
RollbackKeepsFlushed(d, r) ==
    IF r.op = "convert_quote" /\ ~Exists(d.invoices, r.new_id)
    THEN [d EXCEPT !.invoices = Append(@,
            [id |-> r.new_id, invoice_number |-> r.num, client_id |-> r.client_id,
             total |-> 0, paid |-> FALSE, paid_at |-> 0, created_by_id |-> r.user_id,
             marked_paid_by_id |-> 0])]
    ELSE IF r.op = "create_quote" /\ ~Exists(d.quotes, r.new_id)
    THEN [d EXCEPT !.quotes = Append(@,
            [id |-> r.new_id, quote_number |-> r.num, client_id |-> r.client_id,
             total |-> 0, status |-> "Draft", converted |-> FALSE,
             created_by_id |-> r.user_id])]
    ELSE d

\* Fault: a rollback that also takes back the audit entry committed last.
RollbackDropsAudit(d, r) ==
    [d EXCEPT !.audit_logs = SubSeq(@, 1, Len(@) - 1)]

\* db.rollback() in an except block: what the session has flushed and not
\* committed is dropped, the committed store is what it was
Rollback(d, r) == d

\* main.py 619-622: a statement of the try block raises
CreateQuoteFail(p) ==
    /\ At(p, {"cq_flushed", "cq_committed"})
    /\ db' = Rollback(db, req[p])
    /\ Respond(p, req[p], "Error creating quote.")
    /\ UNCHANGED nreq

\* ----------------------------------------------------------- convert_quote
\* Fault: the status check left out.
ConvertRefusalAnyStatus(d, user_id, quote_id) ==
    IF ~Exists(d.quotes, quote_id) THEN "404"
    ELSE IF ~CanAccess(user_id, ById(d.quotes, quote_id).created_by_id) THEN "403"
    ELSE IF ById(d.quotes, quote_id).converted THEN "Already converted."
    ELSE ""

\* Fault: the converted check left out.
ConvertRefusalIgnoresConverted(d, user_id, quote_id) ==
    IF ~Exists(d.quotes, quote_id) THEN "404"
    ELSE IF ~CanAccess(user_id, ById(d.quotes, quote_id).created_by_id) THEN "403"
    ELSE IF ById(d.quotes, quote_id).status # "Approved" THEN "Quote must be approved first."
    ELSE ""

\* Fault: the converted check made before the ownership check.
ConvertRefusalConvertedFirst(d, user_id, quote_id) ==
    IF ~Exists(d.quotes, quote_id) THEN "404"
    ELSE IF ById(d.quotes, quote_id).converted THEN "Already converted."
    ELSE IF ~CanAccess(user_id, ById(d.quotes, quote_id).created_by_id) THEN "403"
    ELSE IF ById(d.quotes, quote_id).status # "Approved" THEN "Quote must be approved first."
    ELSE ""

\* main.py 628-640: the four checks, in the order of the code; "" when all pass
ConvertRefusal(d, user_id, quote_id) ==
    IF ~Exists(d.quotes, quote_id) THEN "404"
    ELSE IF ~CanAccess(user_id, ById(d.quotes, quote_id).created_by_id) THEN "403"
    ELSE IF ById(d.quotes, quote_id).converted THEN "Already converted."
    ELSE IF ById(d.quotes, quote_id).status # "Approved" THEN "Quote must be approved first."
    ELSE ""

\* main.py 626-651: SELECT ... FOR UPDATE of the quote row (waits while another
\* transaction holds the row), the checks, the client's next invoice number,
\* Invoice(total=0) added and flushed.  A refused request ends its transaction.
ConvertBegin(p) ==
    /\ Accept(p)
    /\ \E user_id \in UserIds, quote_id \in QuoteIds :
         LET r == [NoReq EXCEPT !.op = "convert_quote", !.user_id = user_id,
                                !.entity_id = quote_id]
         IN  /\ ~QuoteRowLocked(p, quote_id)
             /\ IF ConvertRefusal(db, user_id, quote_id) # ""
                THEN Respond(p, r, ConvertRefusal(db, user_id, quote_id)) /\ UNCHANGED db
                ELSE /\ Goto(p, [r EXCEPT !.client_id = ById(db.quotes, quote_id).client_id,
                                          !.num = NextInvoiceNumber(db, ById(db.quotes, quote_id).client_id),
                                          !.new_id = db.invoice_id_seq], "cv_flushed")
                     /\ db' = Allocate([db EXCEPT !.invoice_id_seq = @ + 1], "invoice",
                                        ById(db.quotes, quote_id).client_id,
                                        NextInvoiceNumber(db, ById(db.quotes, quote_id).client_id))

\* main.py 653-665: the items are copied, invoice.total and quote.converted are
\* set, db.commit() (which releases the row lock)
ConvertEnd(p) ==
    /\ At(p, {"cv_flushed"})
    /\ db' = ConvertCommit(db, req[p].new_id, req[p].num, req[p].user_id, req[p].entity_id)
    /\ Goto(p, req[p], "cv_committed")
    /\ UNCHANGED nreq

\* main.py 667-669: the audit entry, written and committed after the invoice
ConvertAudit(p) ==
    /\ At(p, {"cv_committed"})
    /\ db' = LogAuditAction(db, req[p].user_id, "quote_converted", "invoice", req[p].new_id)
    /\ Respond(p, req[p], "/invoices-page")
    /\ UNCHANGED nreq

\* main.py 670-673: a statement of the try block raises
ConvertFail(p) ==
    /\ At(p, {"cv_flushed", "cv_committed"})
    /\ db' = Rollback(db, req[p])
    /\ Respond(p, req[p], "Error converting.")
    /\ UNCHANGED nreq

\* -------------------------------------------------- approve_quote, mark_sent
StatusOps == {[op |-> "approve_quote", status |-> "Approved", action |-> "quote_approved"],
              [op |-> "mark_sent", status |-> "Sent", action |-> "quote_sent"]}

StatusOp(op) == CHOOSE s \in StatusOps : s.op = op

\* main.py 721-726, 735-740: "" when the request may go on
QuoteRefusal(d, user_id, quote_id) ==
    IF ~Exists(d.quotes, quote_id) THEN "404"
    ELSE IF ~CanAccess(user_id, ById(d.quotes, quote_id).created_by_id) THEN "403"
    ELSE ""

\* main.py 721-726 / 735-740: the quote is read (no lock), 404 and 403
SetStatusBegin(p) ==
    /\ Accept(p)
    /\ \E user_id \in UserIds, quote_id \in QuoteIds, s \in StatusOps :
         LET r == [NoReq EXCEPT !.op = s.op, !.user_id = user_id, !.entity_id = quote_id]
         IN  IF QuoteRefusal(db, user_id, quote_id) # ""
             THEN Respond(p, r, QuoteRefusal(db, user_id, quote_id))
             ELSE Goto(p, [r EXCEPT !.seen = ById(db.quotes, quote_id).status], "st_write")
    /\ UNCHANGED db

\* main.py 728-731 / 742-745: quote.status = ...; db.commit(); the audit entry.
\* The session sends an UPDATE only when the value differs from the one it read;
\* the UPDATE waits while another transaction holds the row.
SetStatusEnd(p) ==
    /\ At(p, {"st_write"})
    /\ LET s == StatusOp(req[p].op)
           d == IF req[p].seen = s.status THEN db ELSE SetStatus(db, req[p].entity_id, s.status)
       IN  /\ req[p].seen # s.status => ~QuoteRowLocked(p, req[p].entity_id)
           /\ db' = LogAuditAction(d, req[p].user_id, s.action, "quote", req[p].entity_id)
    /\ Respond(p, req[p], "/quotes-page")
    /\ UNCHANGED nreq

\* ---------------------------------------------------------------- mark_paid
\* main.py 765-770: "" when the request may go on
InvoiceRefusal(d, user_id, invoice_id) ==
    IF ~Exists(d.invoices, invoice_id) THEN "404"
    ELSE IF ~CanAccess(user_id, ById(d.invoices, invoice_id).created_by_id) THEN "403"
    ELSE ""

\* main.py 765-772: the invoice is read, 404 and 403, nothing to do when paid
MarkPaidBegin(p) ==
    /\ Accept(p)
    /\ \E user_id \in UserIds, invoice_id \in InvoiceIds :
         LET r == [NoReq EXCEPT !.op = "mark_paid", !.user_id = user_id, !.entity_id = invoice_id]
         IN  IF InvoiceRefusal(db, user_id, invoice_id) # ""
             THEN Respond(p, r, InvoiceRefusal(db, user_id, invoice_id))
             ELSE IF ById(db.invoices, invoice_id).paid
             THEN Respond(p, r, "/invoices-page")
             ELSE Goto(p, r, "mp_write")
    /\ UNCHANGED db

\* main.py 773-779: paid, paid_at, marked_paid_by_id; db.commit(); the audit entry.
\* The time of the request stands for utcnow().
MarkPaidEnd(p) ==
    /\ At(p, {"mp_write"})
    /\ db' = LogAuditAction(SetPaid(db, req[p].entity_id, req[p].user_id, nreq),
                            req[p].user_id, "invoice_marked_paid", "invoice", req[p].entity_id)
    /\ Respond(p, req[p], "/invoices-page")
    /\ UNCHANGED nreq

\* ------------------------------------------------------------ update_client
ClientNames == {"Acme Services"}

\* main.py 496-501 (also 470-475, 522-527): "" when the request may go on
ClientRefusal(d, user_id, client_id) ==
    IF ~Exists(d.clients, client_id) THEN "/clients-page"
    ELSE IF ~CanAccess(user_id, ById(d.clients, client_id).created_by_id) THEN "403"
    ELSE ""

\* main.py 496-518: the fields are overwritten, db.commit(), the audit entry
UpdateClient(p) ==
    /\ Accept(p)
    /\ \E user_id \in UserIds, client_id \in ClientIds, name \in ClientNames :
         LET r == [NoReq EXCEPT !.op = "update_client", !.user_id = user_id, !.entity_id = client_id]
         IN  IF ClientRefusal(db, user_id, client_id) # ""
             THEN Respond(p, r, ClientRefusal(db, user_id, client_id)) /\ UNCHANGED db
             ELSE /\ db' = LogAuditAction(SetClientName(db, client_id, name), user_id,
                                          "client_updated", "client", client_id)
                  /\ Respond(p, r, "/clients-page")

\* ------------------------------------------------------------ reading pages
\* edit_client_page (main.py 468-481) and client_history (520-539)
ClientPage(p) ==
    /\ Accept(p)
    /\ \E user_id \in UserIds, client_id \in ClientIds, op \in {"edit_client_page", "client_history"} :
         LET r == [NoReq EXCEPT !.op = op, !.user_id = user_id, !.entity_id = client_id]
         IN  IF ClientRefusal(db, user_id, client_id) # ""
             THEN Respond(p, r, ClientRefusal(db, user_id, client_id))
             ELSE Respond(p, r, "200")
    /\ UNCHANGED db

\* quote_pdf (main.py 675-688): the document built from the quote's items is the
\* response
QuotePdf(p) ==
    /\ Accept(p)
    /\ \E user_id \in UserIds, quote_id \in QuoteIds :
         LET r == [NoReq EXCEPT !.op = "quote_pdf", !.user_id = user_id, !.entity_id = quote_id]
         IN  IF QuoteRefusal(db, user_id, quote_id) # ""
             THEN Respond(p, r, QuoteRefusal(db, user_id, quote_id))
             ELSE Respond(p, [r EXCEPT !.doc = GenerateQuotePdf(QuoteItemsOf(db, quote_id))], "200")
    /\ UNCHANGED db

\* invoice_pdf (main.py 781-794): the document built from the invoice's items is
\* the response
InvoicePdf(p) ==
    /\ Accept(p)
    /\ \E user_id \in UserIds, invoice_id \in InvoiceIds :
         LET r == [NoReq EXCEPT !.op = "invoice_pdf", !.user_id = user_id, !.entity_id = invoice_id]
         IN  IF InvoiceRefusal(db, user_id, invoice_id) # ""
             THEN Respond(p, r, InvoiceRefusal(db, user_id, invoice_id))
             ELSE Respond(p, [r EXCEPT !.doc = GenerateInvoicePdf(InvoiceItemsOf(db, invoice_id))],
                          "200")
    /\ UNCHANGED db

\* ------------------------------------------------- email_quote, email_invoice
\* main.py 692-697: a quote that is not there redirects, it does not give 404
EmailQuoteRefusal(d, user_id, quote_id) ==
    IF ~Exists(d.quotes, quote_id) THEN "/quotes-page"
    ELSE IF ~CanAccess(user_id, ById(d.quotes, quote_id).created_by_id) THEN "403"
    ELSE ""

\* main.py 690-717: the pdf is built and mailed; the audit entry follows a send
\* that succeeded, a send that raised is reported in the flash message
EmailQuote(p) ==
    /\ Accept(p)
    /\ \E user_id \in UserIds, quote_id \in QuoteIds, sent \in BOOLEAN :
         LET r == [NoReq EXCEPT !.op = "email_quote", !.user_id = user_id, !.entity_id = quote_id]
         IN  IF EmailQuoteRefusal(db, user_id, quote_id) # ""
             THEN Respond(p, r, EmailQuoteRefusal(db, user_id, quote_id)) /\ UNCHANGED db
             ELSE IF sent
             THEN /\ db' = LogAuditAction(db, user_id, "quote_emailed", "quote", quote_id)
                  /\ Respond(p, r, "Quote emailed!")
             ELSE Respond(p, r, "Email failed") /\ UNCHANGED db

\* Fault: the audit entry written before the send, whether or not it succeeds.
EmailInvoiceAuditsFirst(p) ==
    /\ Accept(p)
    /\ \E user_id \in UserIds, invoice_id \in InvoiceIds, sent \in BOOLEAN :
         LET r == [NoReq EXCEPT !.op = "email_invoice", !.user_id = user_id, !.entity_id = invoice_id]
         IN  IF InvoiceRefusal(db, user_id, invoice_id) # ""
             THEN Respond(p, r, InvoiceRefusal(db, user_id, invoice_id)) /\ UNCHANGED db
             ELSE /\ db' = LogAuditAction(db, user_id, "invoice_emailed", "invoice", invoice_id)
                  /\ Respond(p, r, IF sent THEN "Invoice emailed!" ELSE "Email failed")

\* main.py 796-823
EmailInvoice(p) ==
    /\ Accept(p)
    /\ \E user_id \in UserIds, invoice_id \in InvoiceIds, sent \in BOOLEAN :
         LET r == [NoReq EXCEPT !.op = "email_invoice", !.user_id = user_id, !.entity_id = invoice_id]
         IN  IF InvoiceRefusal(db, user_id, invoice_id) # ""
             THEN Respond(p, r, InvoiceRefusal(db, user_id, invoice_id)) /\ UNCHANGED db
             ELSE IF sent
             THEN /\ db' = LogAuditAction(db, user_id, "invoice_emailed", "invoice", invoice_id)
                  /\ Respond(p, r, "Invoice emailed!")
             ELSE Respond(p, r, "Email failed") /\ UNCHANGED db

\* ------------------------------------------------------------ create_client
\* The names the client form submits.
NewClientNames == {"Acme Services", "A.C. Motors", "O2"}

\* Fault: client_code declared without unique=True.
NoUniqueConstraint(d, client_code) == FALSE

\* client_code = Column(String, unique=True): the INSERT of a code that a committed
\* row carries raises IntegrityError
ClientCodeTaken(d, client_code) == \E c \in Rows(d.clients) : c.client_code = client_code

\* main.py 426-445: the code is computed from the clients the transaction reads
CreateClientBegin(p) ==
    /\ Accept(p)
    /\ \E user_id \in UserIds, name \in NewClientNames :
         Goto(p, [NoReq EXCEPT !.op = "create_client", !.user_id = user_id,
                               !.name = name, !.code = ClientCode(db, name)], "cc_computed")
    /\ UNCHANGED db

\* main.py 447-455 and 463-466: Client added, db.commit() sends the INSERT (its id
\* drawn from the sequence); a code already taken raises, and the except block
\* rolls back
CreateClientEnd(p) ==
    /\ At(p, {"cc_computed"})
    /\ IF ClientCodeTaken(db, req[p].code)
       THEN /\ db' = Rollback([db EXCEPT !.client_id_seq = @ + 1], req[p])
            /\ Respond(p, req[p], "Error creating client.")
       ELSE /\ db' = [db EXCEPT !.client_id_seq = @ + 1,
                                !.clients = Append(@, [id |-> db.client_id_seq,
                                                       name |-> req[p].name,
                                                       created_by_id |-> req[p].user_id,
                                                       client_code |-> req[p].code])]
            /\ Goto(p, [req[p] EXCEPT !.new_id = db.client_id_seq], "cc_committed")
    /\ UNCHANGED nreq

\* main.py 457-461: the audit entry, written and committed after the client
CreateClientAudit(p) ==
    /\ At(p, {"cc_committed"})
    /\ db' = LogAuditAction(db, req[p].user_id, "client_created", "client", req[p].new_id)
    /\ Respond(p, req[p], "/clients-page")
    /\ UNCHANGED nreq

\* main.py 463-466: log_audit_action raises after the client was committed
CreateClientFail(p) ==
    /\ At(p, {"cc_committed"})
    /\ db' = Rollback(db, req[p])
    /\ Respond(p, req[p], "Error creating client.")
    /\ UNCHANGED nreq

\* ---------------------------------------------------------- forgot_password
\* The usernames the form submits: those of the users and one no user has.
Usernames == {Users[i].username : i \in DOMAIN Users} \cup {"nobody@umvuzo"}

\* db.query(User).filter(User.username == username).first()
UserNamed(username) == {Users[i].id : i \in {j \in DOMAIN Users : Users[j].username = username}}

\* Fault: a failed send reported to the caller.
ForgotResponseTellsFailure(found, sent) ==
    IF found /\ ~sent THEN "Email failed"
    ELSE "If that email exists, a reset link has been sent."

\* main.py 166, 196-197: the flash message set before the user is looked at, and
\* the redirect to /login
ForgotResponse(found, sent) == "If that email exists, a reset link has been sent."

\* main.py 169-181: the tokens the UPDATE matched are marked used, the new token
\* is added, db.commit()
IssueToken(d, user_id, matched, now) ==
    [d EXCEPT !.tokens = Append([i \in DOMAIN @ |-> IF @[i].id \in matched
                                                    THEN [@[i] EXCEPT !.used = TRUE]
                                                    ELSE @[i]],
                                [id |-> Len(@) + 1, user_id |-> user_id,
                                 expires_at |-> now + TokenLife, used |-> FALSE])]

\* main.py 164-172: the user is looked up; the UPDATE of the user's unused tokens
\* matches the rows its statement reads
ForgotBegin(p) ==
    /\ Accept(p)
    /\ \E username \in Usernames :
         LET r == [NoReq EXCEPT !.op = "forgot_password", !.name = username]
         IN  IF UserNamed(username) = {}
             THEN Respond(p, r, ForgotResponse(FALSE, FALSE))
             ELSE LET user_id == CHOOSE u \in UserNamed(username) : TRUE
                  IN  Goto(p, [r EXCEPT !.user_id = user_id,
                                        !.matched = {t.id : t \in {x \in Rows(db.tokens) :
                                                        x.user_id = user_id /\ ~x.used}}],
                           "fp_updated")
    /\ UNCHANGED db

\* main.py 174-197: the new token, db.commit(), the mail (a send that raises is
\* passed over), the flash message and the redirect
ForgotEnd(p) ==
    /\ At(p, {"fp_updated"})
    /\ db' = IssueToken(db, req[p].user_id, req[p].matched, nreq)
    /\ \E sent \in BOOLEAN :
         Respond(p, [req[p] EXCEPT !.seen = IF sent THEN "mail sent" ELSE "mail failed"],
                 ForgotResponse(TRUE, sent))
    /\ UNCHANGED nreq

\* ----------------------------------------------------------- reset_password
\* new_password and confirm_password of the form
ResetForms == {[new_password |-> "s3cret-pass", confirm_password |-> "s3cret-pass"],
               [new_password |-> "s3cret", confirm_password |-> "s3cret"],
               [new_password |-> "s3cret-pass", confirm_password |-> "s3cret-word"]}

\* main.py 228-243: "" when the request may go on
ResetRefusal(d, token, form, now) ==
    IF ~Exists(d.tokens, token) \/ ById(d.tokens, token).used THEN "Invalid link."
    ELSE IF ById(d.tokens, token).expires_at < now THEN "Invalid link."
    ELSE IF form.new_password # form.confirm_password THEN "Passwords don't match."
    ELSE IF Len(Chars(form.new_password)) < MinPasswordLen THEN "Password too short (min 8)."
    ELSE ""

\* user.password = hash_password(new_password); reset.used = True; db.commit()
SetPassword(d, token, user_id, password) ==
    [d EXCEPT !.passwords = [@ EXCEPT ![user_id] = HashPassword(password)],
              !.tokens = Replace(@, token, [ById(@, token) EXCEPT !.used = TRUE]),
              !.password_resets = Append(@, token)]

\* main.py 228-243: the token is read (no lock) and the form is checked; token 0
\* stands for a token no row carries
ResetBegin(p) ==
    /\ Accept(p)
    /\ \E token \in 0 .. Len(db.tokens), form \in ResetForms :
         LET r == [NoReq EXCEPT !.op = "reset_password", !.entity_id = token]
         IN  IF ResetRefusal(db, token, form, nreq + 1) # ""
             THEN Respond(p, r, ResetRefusal(db, token, form, nreq + 1))
             ELSE Goto(p, [r EXCEPT !.user_id = ById(db.tokens, token).user_id,
                                    !.password = form.new_password], "rp_write")
    /\ UNCHANGED db

\* main.py 245-253: password and used written, db.commit(), the audit entry
ResetEnd(p) ==
    /\ At(p, {"rp_write"})
    /\ db' = LogAuditAction(SetPassword(db, req[p].entity_id, req[p].user_id, req[p].password),
                            req[p].user_id, "password_reset", "", 0)
    /\ Respond(p, req[p], "Password reset!")
    /\ UNCHANGED nreq

\* ----------------------------------------------------------------- services
\* price of the service form (a float the form accepts as it is)
Prices == {0, 450}

\* the ids a service request can name, one of them of no row
ServiceIds == 1 .. (Len(db.services) + 1)

\* main.py 847-851: Service added, db.commit(), the audit entry
CreateService(p) ==
    /\ Accept(p)
    /\ \E user_id \in UserIds, price \in Prices :
         /\ db' = LogAuditAction(
                    [db EXCEPT !.services = Append(@, [id |-> Len(@) + 1, name |-> "Router Setup",
                                                       price |-> price, is_active |-> TRUE])],
                    user_id, "service_created", "service", Len(db.services) + 1)
         /\ Respond(p, [NoReq EXCEPT !.op = "create_service", !.user_id = user_id,
                                     !.entity_id = Len(db.services) + 1], "/services")

\* main.py 873-883: the fields are overwritten, db.commit(), the audit entry
UpdateService(p) ==
    /\ Accept(p)
    /\ \E user_id \in UserIds, service_id \in ServiceIds, price \in Prices :
         LET r == [NoReq EXCEPT !.op = "update_service", !.user_id = user_id,
                                !.entity_id = service_id]
         IN  /\ Respond(p, r, "/services")
             /\ IF ~Exists(db.services, service_id) THEN UNCHANGED db
                ELSE db' = LogAuditAction(
                        [db EXCEPT !.services = Replace(@, service_id,
                            [ById(@, service_id) EXCEPT !.name = "Remote Support",
                                                        !.price = price])],
                        user_id, "service_updated", "service", service_id)

\* main.py 887-893: is_active = False, db.commit(), the audit entry
DeleteService(p) ==
    /\ Accept(p)
    /\ \E user_id \in UserIds, service_id \in ServiceIds :
         LET r == [NoReq EXCEPT !.op = "delete_service", !.user_id = user_id,
                                !.entity_id = service_id]
         IN  /\ Respond(p, r, "/services")
             /\ IF ~Exists(db.services, service_id) THEN UNCHANGED db
                ELSE db' = LogAuditAction(
                        [db EXCEPT !.services = Replace(@, service_id,
                            [ById(@, service_id) EXCEPT !.is_active = FALSE])],
                        user_id, "service_deleted", "service", service_id)

\* ------------------------------------------------------------ specification
Next == \E p \in Procs :
          \/ CreateQuoteBegin(p) \/ CreateQuoteEnd(p) \/ CreateQuoteAudit(p) \/ CreateQuoteFail(p)
          \/ ConvertBegin(p) \/ ConvertEnd(p) \/ ConvertAudit(p) \/ ConvertFail(p)
          \/ SetStatusBegin(p) \/ SetStatusEnd(p)
          \/ MarkPaidBegin(p) \/ MarkPaidEnd(p)
          \/ UpdateClient(p) \/ ClientPage(p) \/ QuotePdf(p) \/ InvoicePdf(p)
          \/ EmailQuote(p) \/ EmailInvoice(p)
          \/ CreateClientBegin(p) \/ CreateClientEnd(p) \/ CreateClientAudit(p)
          \/ CreateClientFail(p)
          \/ ForgotBegin(p) \/ ForgotEnd(p) \/ ResetBegin(p) \/ ResetEnd(p)
          \/ CreateService(p) \/ UpdateService(p) \/ DeleteService(p)
          \/ Return(p)

Spec == Init /\ [][Next]_vars

\* ------------------------------------------------------------- properties
\* p starts serving a request of kind op in this step
Starts(p, op) == pc[p] = "idle" /\ pc'[p] # "idle" /\ req'[p].op = op

IsAdmin(user_id) == \E i \in DOMAIN Users : Users[i].id = user_id /\ Users[i].role = ADMIN

\* the invoices made from quote_id
InvoicesFrom(d, quote_id) == {i \in DOMAIN d.conversions : d.conversions[i].quote_id = quote_id}

\* C1: no two invoices of the same client carry the same invoice_number, under any
\* interleaving of convert_quote requests.
C1_InvoiceNumbersDistinctPerClient ==
    \A i, j \in DOMAIN db.invoices :
        (i # j /\ db.invoices[i].client_id = db.invoices[j].client_id)
            => db.invoices[i].invoice_number # db.invoices[j].invoice_number

\* C2: of the convert_quote requests for one quote at most one passes the
\* "already converted" check at a time, and at most one invoice is made from the quote.
C2_OneInvoicePerQuote ==
    /\ \A q \in QuoteIds : Cardinality(InvoicesFrom(db, q)) <= 1
    /\ \A p, o \in Procs :
         (p # o /\ pc[p] = "cv_flushed" /\ pc[o] = "cv_flushed")
            => req[p].entity_id # req[o].entity_id
    /\ \A p \in Procs :
         pc[p] = "cv_flushed" => InvoicesFrom(db, req[p].entity_id) = {}

\* Two requests for the same quote have met: one has committed its invoice and is
\* still being served, the other has been told "Already converted.".
C2_Witness ==
    \E p, o \in Procs :
        /\ pc[p] = "cv_committed" /\ pc[o] = "done"
        /\ req[o].op = "convert_quote" /\ req[o].entity_id = req[p].entity_id
        /\ req[o].resp = "Already converted."
        /\ Cardinality(InvoicesFrom(db, req[p].entity_id)) = 1

\* C3: a quote's converted flag never goes from true to false, it goes from false to
\* true only in a step taken while the quote's status is Approved, and at most one
\* invoice is ever made from the quote.
C3_Step ==
    \A i \in DOMAIN db.quotes :
        LET q  == db.quotes[i]
            q2 == ById(db'.quotes, q.id)
        IN  /\ Exists(db'.quotes, q.id)
            /\ q.converted => q2.converted
            /\ (~q.converted /\ q2.converted) => (q.status = "Approved" /\ q2.status = "Approved")
            /\ Cardinality(InvoicesFrom(db', q.id)) <= 1
            /\ Cardinality(InvoicesFrom(db', q.id)) >= Cardinality(InvoicesFrom(db, q.id))

C3_ConvertedOnceWhileApproved == [][C3_Step]_vars

\* A conversion has just been committed by a request, and another quote that was
\* converted earlier has left the Approved status since.
C3_Witness ==
    \E p \in Procs :
        /\ pc[p] = "cv_committed"
        /\ ById(db.quotes, req[p].entity_id).converted
        /\ \E q \in Rows(db.quotes) : q.converted /\ q.status = "Sent"

\* C4: convert_quote on a quote that is not Approved, by a user allowed to access it,
\* creates no Invoice and no InvoiceItem and does not set the converted flag.
C4_Step ==
    \A p \in Procs :
        LET q == req'[p].entity_id
            u == req'[p].user_id
        IN  ( /\ Starts(p, "convert_quote")
              /\ Exists(db.quotes, q)
              /\ (IsAdmin(u) \/ ById(db.quotes, q).created_by_id = u)
              /\ ById(db.quotes, q).status # "Approved" )
            => /\ pc'[p] = "done"
               /\ db'.invoices = db.invoices
               /\ db'.invoice_items = db.invoice_items
               /\ db'.quotes = db.quotes

C5_Step ==
    \A p \in Procs :
        ( /\ Starts(p, "convert_quote")
          /\ Exists(db.quotes, req'[p].entity_id)
          /\ ById(db.quotes, req'[p].entity_id).converted )
        => (pc'[p] = "done" /\ db' = db)

C5_AlreadyConvertedNoOp == [][C5_Step]_vars

\* A request to convert a converted quote has been answered, after an earlier request.
C5_Witness ==
    \E p \in Procs :
        /\ pc[p] = "done" /\ req[p].op = "convert_quote"
        /\ req[p].resp = "Already converted."
        /\ nreq >= 2
        /\ Cardinality(InvoicesFrom(db, req[p].entity_id)) = 1

\* C6: in every committed state every invoice's total is the sum of unit_cost times
\* quantity over its InvoiceItems.
C6_InvoiceTotalIsSumOfItems ==
    \A v \in Rows(db.invoices) : v.total = SumLines(InvoiceItemsOf(db, v.id))

\* A request has committed the invoice of the two-item quote: total 250.
C6_Witness ==
    \E p \in Procs :
        /\ pc[p] = "cv_committed"
        /\ Exists(db.invoices, req[p].new_id)
        /\ ById(db.invoices, req[p].new_id).total = 250
        /\ Len(InvoiceItemsOf(db, req[p].new_id)) = 2

\* C7: the commit of convert_quote adds exactly one Invoice; its InvoiceItems are the
\* quote's QuoteItems, one for one and in their order, with the same description,
\* unit_cost and quantity; its total is the sum of the copied line amounts
\* ((Setup,100,2),(Support,50,1) give two items and total 250).
C7_Step ==
    \A p \in Procs :
        (pc[p] = "cv_flushed" /\ pc'[p] = "cv_committed") =>
            LET quote_items == QuoteItemsOf(db, req[p].entity_id)
                new         == {v \in Rows(db'.invoices) : v \notin Rows(db.invoices)}
                copied      == ItemValues(InvoiceItemsOf(db', req[p].new_id))
            IN  /\ Len(db'.invoices) = Len(db.invoices) + 1
                /\ Cardinality(new) = 1
                /\ \A v \in new : v.id = req[p].new_id /\ v.total = SumLines(copied)
                /\ copied = ItemValues(quote_items)
                /\ Len(db'.invoice_items) = Len(db.invoice_items) + Len(quote_items)
                /\ InvoiceItemsOf(db, req[p].new_id) = <<>>
                /\ copied = ListA => \A v \in new : v.total = 250

C8_Expected(d, u, q) ==
    IF ~Exists(d.quotes, q) THEN "404"
    ELSE IF ~(IsAdmin(u) \/ ById(d.quotes, q).created_by_id = u) THEN "403"
    ELSE IF ById(d.quotes, q).converted THEN "Already converted."
    ELSE IF ById(d.quotes, q).status # "Approved" THEN "Quote must be approved first."
    ELSE ""

C8_Step ==
    \A p \in Procs :
        Starts(p, "convert_quote") =>
            LET e == C8_Expected(db, req'[p].user_id, req'[p].entity_id)
            IN  IF e = "" THEN pc'[p] = "cv_flushed"
                ELSE pc'[p] = "done" /\ req'[p].resp = e

C8_FirstFailingCheckWins == [][C8_Step]_vars

\* The creator of a converted quote that is no longer Approved asked to convert it
\* and was told "Already converted.".
C8_Witness ==
    \E p \in Procs :
        /\ pc[p] = "done" /\ req[p].op = "convert_quote"
        /\ req[p].resp = "Already converted."
        /\ ~IsAdmin(req[p].user_id)
        /\ ById(db.quotes, req[p].entity_id).status # "Approved"

\* C9: for every operation on one client, quote or invoice, a user who is neither
\* admin nor the creator of the entity gets 403 and the store is unchanged; an admin
\* never gets 403.
ClientOps == {"edit_client_page", "client_history", "update_client"}
QuoteOps == {"quote_pdf", "email_quote", "approve_quote", "mark_sent", "convert_quote"}
InvoiceOps == {"mark_paid", "invoice_pdf", "email_invoice"}

C9_Table(d, op) == IF op \in ClientOps THEN d.clients
                   ELSE IF op \in QuoteOps THEN d.quotes ELSE d.invoices

C9_Step ==
    \A p \in Procs :
        LET op == req'[p].op
            u  == req'[p].user_id
            t  == C9_Table(db, op)
        IN  ( /\ pc[p] = "idle" /\ pc'[p] # "idle"
              /\ op \in ClientOps \cup QuoteOps \cup InvoiceOps
              /\ Exists(t, req'[p].entity_id) )
            => /\ (~IsAdmin(u) /\ ById(t, req'[p].entity_id).created_by_id # u)
                    => (pc'[p] = "done" /\ req'[p].resp = "403" /\ db' = db)
               /\ IsAdmin(u) => req'[p].resp # "403"

C9_OnlyAdminOrCreator == [][C9_Step]_vars

\* A regular user asked to mark an invoice paid that another user created: 403.
C9_Witness ==
    \E p \in Procs :
        /\ pc[p] = "done" /\ req[p].op = "mark_paid" /\ req[p].resp = "403"
        /\ ~ById(db.invoices, req[p].entity_id).paid

\* C10: create_quote and convert_quote are atomic.  The committed store never holds
\* a quote or an invoice without all of its items and its total, nor a converted
\* flag without the invoice; what a request has flushed is not in the committed
\* store; and a request that fails before its commit leaves the store as it was.
C10_Complete(d) ==
    /\ \A q \in Rows(d.quotes) :
         /\ QuoteItemsOf(d, q.id) # <<>>
         /\ q.total = SumLines(QuoteItemsOf(d, q.id))
         /\ q.converted <=> InvoicesFrom(d, q.id) # {}
    /\ \A v \in Rows(d.invoices) :
         \E i \in DOMAIN d.conversions :
            /\ d.conversions[i].invoice_id = v.id
            /\ ItemValues(InvoiceItemsOf(d, v.id))
                 = ItemValues(QuoteItemsOf(d, d.conversions[i].quote_id))
            /\ v.total = SumLines(QuoteItemsOf(d, d.conversions[i].quote_id))

C10_Pending ==
    \A p \in Procs :
        /\ pc[p] = "cq_flushed" =>
             ~Exists(db.quotes, req[p].new_id) /\ QuoteItemsOf(db, req[p].new_id) = <<>>
        /\ pc[p] = "cv_flushed" =>
             /\ ~Exists(db.invoices, req[p].new_id)
             /\ InvoiceItemsOf(db, req[p].new_id) = <<>>
             /\ ~ById(db.quotes, req[p].entity_id).converted

C10_Step ==
    /\ C10_Complete(db) /\ C10_Complete(db')
    /\ C10_Pending /\ C10_Pending'
    /\ \A p \in Procs :
         (pc[p] \in {"cq_flushed", "cv_flushed"} /\ pc'[p] = "done") =>
            /\ db' = db
            /\ req'[p].resp \in {"Error creating quote.", "Error converting."}

C10_AllOrNothing == [][C10_Step]_vars

\* A conversion failed before its commit: no invoice, the quote not converted.
C10_Witness ==
    \E p \in Procs :
        /\ pc[p] = "done" /\ req[p].resp = "Error converting."
        /\ ~Exists(db.invoices, req[p].new_id)
        /\ ~ById(db.quotes, req[p].entity_id).converted
        /\ \E o \in Procs : pc[o] = "cq_flushed"

\* C11: no two quotes of the same client carry the same quote_number, under any
\* interleaving of create_quote requests.
C11_QuoteNumbersDistinctPerClient ==
    \A i, j \in DOMAIN db.quotes :
        (i # j /\ db.quotes[i].client_id = db.quotes[j].client_id)
            => db.quotes[i].quote_number # db.quotes[j].quote_number

\* C12: a quote or invoice number allocated for a client is never allocated again
\* for that client, whether or not the request that allocated it committed.
C12_NumbersNeverAllocatedTwice ==
    \A i, j \in DOMAIN db.allocated : i # j => db.allocated[i] # db.allocated[j]

\* C13: no two clients have the same client_code, also after concurrent
\* create_client requests for names with the same prefix; a request whose code is
\* taken creates no client.
C13_Step ==
    /\ \A i, j \in DOMAIN db'.clients :
         i # j => db'.clients[i].client_code # db'.clients[j].client_code
    /\ \A p \in Procs :
         ( /\ pc[p] = "cc_computed" /\ pc'[p] # "cc_computed"
           /\ \E c \in Rows(db.clients) : c.client_code = req[p].code )
            => (db'.clients = db.clients /\ pc'[p] = "done"
                /\ req'[p].resp = "Error creating client.")

C13_ClientCodeUnique == [][C13_Step]_vars

\* Two requests for names with the prefix ACM computed the same code: one has
\* created its client, the other was refused and created none.
C13_Witness ==
    \E p \in Procs :
        /\ pc[p] = "done" /\ req[p].op = "create_client"
        /\ req[p].resp = "Error creating client."
        /\ \E c \in Rows(db.clients) : c.client_code = req[p].code /\ c.name # req[p].name
        /\ ~\E c \in Rows(db.clients) : c.name = req[p].name

\* the first three letters of the name, uppercased, non-letters removed, padded with X
C14_Prefix(name) ==
    CASE name = "Acme Services" -> <<"A","C","M">>
      [] name = "A.C. Motors"   -> <<"A","C","M">>
      [] name = "O2"            -> <<"O","X","X">>

\* the highest number used with the prefix, 0 when the prefix is not in use
C14_Highest(d, prefix) ==
    SetMax({0} \cup {ParseInt(SubSeq(c.client_code, 4, Len(c.client_code))) :
                        c \in {e \in Rows(d.clients) : SubSeq(e.client_code, 1, 3) = prefix}})

C14_PrefixInUse(d, prefix) == \E c \in Rows(d.clients) : SubSeq(c.client_code, 1, 3) = prefix

\* C14 as stated: the code of a new client is the bare prefix when no client uses
\* the prefix yet ("Acme Corp" gets ACM), and otherwise the prefix followed by the
\* zero-padded number one greater than the highest used with the prefix.
C14_StatedStep ==
    \A p \in Procs :
        (pc[p] = "cc_computed" /\ pc'[p] = "cc_committed") =>
            LET code   == ById(db'.clients, req'[p].new_id).client_code
                prefix == C14_Prefix(req[p].name)
            IN  IF ~C14_PrefixInUse(db, prefix) THEN code = prefix
                ELSE /\ SubSeq(code, 1, 3) = prefix
                     /\ Len(code) = 6
                     /\ CanParseInt(SubSeq(code, 4, 6))
                     /\ ParseInt(SubSeq(code, 4, 6)) = C14_Highest(db, prefix) + 1

C14_FirstClientGetsBarePrefix == [][C14_StatedStep]_vars

\* C14, amended: the code of every new client is the prefix followed by a number
\* zero-padded to three digits: 001 for the first client of a prefix, and one
\* greater than the highest number used with the prefix for a later one ("Acme
\* Corp" has ACM001, "Acme Services" then gets ACM002).
C14_Step ==
    \A p \in Procs :
        (pc[p] = "cc_computed" /\ pc'[p] = "cc_committed") =>
            LET code   == ById(db'.clients, req'[p].new_id).client_code
                prefix == C14_Prefix(req[p].name)
            IN  /\ SubSeq(code, 1, 3) = prefix
                /\ Len(code) = 6
                /\ CanParseInt(SubSeq(code, 4, 6))
                /\ ParseInt(SubSeq(code, 4, 6)) = C14_Highest(db, prefix) + 1
                /\ ById(db'.clients, req'[p].new_id).name = req[p].name

C14_CodeIsPrefixAndNumber == [][C14_Step]_vars

\* "A.C. Motors" has been given ACM002 after "Acme Corp" (ACM001), and "O2", the
\* first client of its prefix, has OXX001.
C14_Witness ==
    \E p \in Procs :
        /\ pc[p] = "cc_committed" /\ req[p].name = "A.C. Motors"
        /\ ById(db.clients, req[p].new_id).client_code = <<"A","C","M","0","0","2">>
        /\ \E c \in Rows(db.clients) :
              c.name = "Acme Corp" /\ c.client_code = <<"A","C","M","0","0","1">>
        /\ \E c \in Rows(db.clients) :
              c.name = "O2" /\ c.client_code = <<"O","X","X","0","0","1">>

\* C15: reset_password changes the password only with a token that exists, is
\* unused and not expired, and a new password that equals its confirmation and has
\* at least 8 characters; one token changes the password at most once, concurrent
\* requests included; a refused request leaves password and token unchanged.
C15_Step ==
    /\ db'.passwords # db.passwords =>
         \E p \in Procs :
            /\ pc[p] = "rp_write" /\ pc'[p] = "done"
            /\ Exists(db.tokens, req[p].entity_id)
            /\ ~ById(db.tokens, req[p].entity_id).used
            /\ ById(db.tokens, req[p].entity_id).expires_at >= nreq
            /\ Len(Chars(req[p].password)) >= MinPasswordLen
    /\ \A i, j \in DOMAIN db'.password_resets :
         i # j => db'.password_resets[i] # db'.password_resets[j]
    /\ \A p \in Procs :
         (Starts(p, "reset_password") /\ pc'[p] = "done")
            => (db'.passwords = db.passwords /\ db'.tokens = db.tokens)

C15_OneResetPerToken == [][C15_Step]_vars

\* C16: each user has at most one token with used = false, in every reachable state.
C16_OneUnusedTokenPerUser ==
    \A u \in UserIds :
        Cardinality({t \in Rows(db.tokens) : t.user_id = u /\ ~t.used}) <= 1

\* C17: forgot_password answers with the same flash message and redirect whether
\* or not the username exists, also when the mail send fails for an existing user.
C17_Step ==
    \A p \in Procs :
        (req'[p].op = "forgot_password" /\ pc[p] # "done" /\ pc'[p] = "done")
            => req'[p].resp = "If that email exists, a reset link has been sent."

C17_SameAnswerForAnyUsername == [][C17_Step]_vars

\* Two requests have been answered: an earlier one for a username no user has (it
\* left no token), and one for an existing user whose mail send failed.
C17_Witness ==
    \E p \in Procs :
        /\ pc[p] = "done" /\ req[p].op = "forgot_password"
        /\ req[p].seen = "mail failed" /\ UserNamed(req[p].name) # {}
        /\ req[p].resp = "If that email exists, a reset link has been sent."
        /\ nreq = 2 /\ Len(db.tokens) = 4

\* C20: input with a non-positive price is rejected before any write: no step adds
\* a service, or changes one, so that its price is not positive, and no step adds
\* a quote item whose unit_cost is not positive.
C20_Step ==
    /\ \A v \in Rows(db'.services) : v.price <= 0 => v \in Rows(db.services)
    /\ \A it \in Rows(db'.quote_items) : it.unit_cost <= 0 => it \in Rows(db.quote_items)

C20_NonPositivePriceRejected == [][C20_Step]_vars

\* C18: email_quote and email_invoice never change a Client, Quote, Invoice,
\* QuoteItem or InvoiceItem row; when the mailer fails the caller is told so, the
\* store is exactly as before and no "emailed" audit entry is written.
C18_Step ==
    \A p \in Procs :
        (Starts(p, "email_quote") \/ Starts(p, "email_invoice")) =>
            /\ pc'[p] = "done"
            /\ db'.clients = db.clients /\ db'.quotes = db.quotes
            /\ db'.invoices = db.invoices /\ db'.quote_items = db.quote_items
            /\ db'.invoice_items = db.invoice_items
            /\ db' # db => req'[p].resp \in {"Quote emailed!", "Invoice emailed!"}
            /\ req'[p].resp = "Email failed" => db' = db

C18_EmailLeavesRecords == [][C18_Step]_vars

\* The mail of an invoice converted from a quote failed: the caller was told, the
\* invoice is there with its total and no invoice_emailed entry was written.
C18_Witness ==
    \E p \in Procs :
        /\ pc[p] = "done" /\ req[p].op = "email_invoice" /\ req[p].resp = "Email failed"
        /\ Exists(db.invoices, req[p].entity_id)
        /\ ById(db.invoices, req[p].entity_id).total > 0
        /\ ~\E i \in DOMAIN db.audit_logs : db.audit_logs[i].action = "invoice_emailed"

\* C19: the audit log is append-only: every step keeps the rows that are there, in
\* place and unchanged, also the step of a request that fails and rolls back.
C19_Step ==
    /\ Len(db'.audit_logs) >= Len(db.audit_logs)
    /\ SubSeq(db'.audit_logs, 1, Len(db.audit_logs)) = db.audit_logs

C19_AuditLogAppendOnly == [][C19_Step]_vars

\* A request failed and rolled back after an earlier request of the run had written
\* its audit entry, which is still the last row.
C19_Witness ==
    \E p \in Procs :
        /\ pc[p] = "done"
        /\ req[p].resp \in {"Error converting.", "Error creating quote.", "Error creating client."}
        /\ nreq = 2
        /\ db.audit_logs[Len(db.audit_logs)].action
              \in {"password_reset", "service_created", "invoice_marked_paid", "client_updated"}

\* C21: a create_quote request with an empty item list, with items_data that is
\* not valid JSON, or for a client the acting user may not use, ends in one step
\* that leaves the store as it was: no Quote, QuoteItem or AuditLog row is added
\* and the client's next quote number is the same.  A create_quote step that does
\* write carries a non-empty item list and names a client the user may use.
C21_Step ==
    \A p \in Procs :
        Starts(p, "create_quote") =>
            /\ pc'[p] = "done" =>
                 /\ req'[p].resp \in {"403", "Invalid data.", "Add at least one item."}
                 /\ db' = db
                 /\ NextQuoteNumber(db', req'[p].client_id) = NextQuoteNumber(db, req'[p].client_id)
            /\ pc'[p] # "done" =>
                 /\ req'[p].items # <<>>
                 /\ \E c \in Rows(db.clients) :
                      /\ c.id = req'[p].client_id
                      /\ IsAdmin(req'[p].user_id) \/ c.created_by_id = req'[p].user_id

C21_RefusedCreateQuoteWritesNothing == [][C21_Step]_vars

\* An empty item list was refused for a client that has a quote: the quote and its
\* audit entry of before are all the store holds for the client.
C21_Witness ==
    \E p \in Procs :
        /\ pc[p] = "done" /\ req[p].op = "create_quote"
        /\ req[p].resp = "Add at least one item."
        /\ Cardinality({q \in Rows(db.quotes) : q.client_id = req[p].client_id}) = 1
        /\ Cardinality({i \in DOMAIN db.audit_logs : db.audit_logs[i].action = "quote_created"}) = 1
        /\ NextQuoteNumber(db, req[p].client_id) = 2

\* C22: the number a create_quote (convert_quote) request gives its new quote
\* (invoice) is 1 when the store it reads holds no quote (invoice) of the client,
\* and otherwise one more than the highest quote (invoice) number of that client;
\* the documents of other clients have no part in it.  The row the request commits
\* carries that number and that client.
C22_NumberAfter(numbers) == IF numbers = {} THEN 1 ELSE SetMax(numbers) + 1

C22_Step ==
    \A p \in Procs :
        /\ (Starts(p, "create_quote") /\ pc'[p] = "cq_flushed") =>
              req'[p].num = C22_NumberAfter({q.quote_number :
                                q \in {r \in Rows(db.quotes) : r.client_id = req'[p].client_id}})
        /\ (pc[p] = "cq_flushed" /\ pc'[p] = "cq_committed") =>
              /\ Len(db'.quotes) = Len(db.quotes) + 1
              /\ db'.quotes[Len(db'.quotes)].quote_number = req[p].num
              /\ db'.quotes[Len(db'.quotes)].client_id = req[p].client_id
        /\ (Starts(p, "convert_quote") /\ pc'[p] = "cv_flushed") =>
              req'[p].num = C22_NumberAfter({v.invoice_number :
                                v \in {r \in Rows(db.invoices) :
                                          r.client_id = ById(db.quotes, req'[p].entity_id).client_id}})
        /\ (pc[p] = "cv_flushed" /\ pc'[p] = "cv_committed") =>
              /\ Len(db'.invoices) = Len(db.invoices) + 1
              /\ db'.invoices[Len(db'.invoices)].invoice_number = req[p].num
              /\ db'.invoices[Len(db'.invoices)].client_id
                    = ById(db.quotes, req[p].entity_id).client_id

C22_NumberIsClientMaxPlusOne == [][C22_Step]_vars

\* The first invoice of a client was committed with number 1 while another client
\* has an invoice.
C22_Witness ==
    \E p \in Procs :
        /\ pc[p] = "cv_committed" /\ req[p].num = 1
        /\ ById(db.invoices, req[p].new_id).invoice_number = 1
        /\ \E v \in Rows(db.invoices) : v.client_id # req[p].client_id

\* C23: every quote of the committed store has at least one item and a total equal
\* to the sum of unit_cost * quantity over its items, and no step changes the
\* total or the items of a quote that is there.
C23_Step ==
    /\ \A q \in Rows(db'.quotes) :
         /\ Len(QuoteItemsOf(db', q.id)) >= 1
         /\ q.total = SumLines(QuoteItemsOf(db', q.id))
    /\ \A q \in Rows(db.quotes) :
         /\ Exists(db'.quotes, q.id)
         /\ ById(db'.quotes, q.id).total = q.total
         /\ QuoteItemsOf(db', q.id) = QuoteItemsOf(db, q.id)

C23_QuoteTotalIsSumOfItems == [][C23_Step]_vars

\* A quote of two items created in this run, total 250, was then approved.
C23_Witness ==
    \E p \in Procs :
        /\ pc[p] = "done" /\ req[p].op = "approve_quote" /\ req[p].resp = "/quotes-page"
        /\ Len(db.quotes) = 1 /\ Len(db.audit_logs) = 4
        /\ db.quotes[1].status = "Approved" /\ db.quotes[1].total = 250
        /\ Len(QuoteItemsOf(db, db.quotes[1].id)) = 2

\* C24: once no convert_quote request stands between its commit and its audit
\* write, every invoice made by conversion has exactly one quote_converted entry
\* that names it, and there are as many quote_converted entries as invoices made
\* by conversion.
C24_ConvertedEntries == {j \in DOMAIN db.audit_logs : db.audit_logs[j].action = "quote_converted"}

C24_OneAuditEntryPerConversion ==
    (\A p \in Procs : pc[p] # "cv_committed") =>
        /\ \A i \in DOMAIN db.conversions :
             Cardinality({j \in C24_ConvertedEntries :
                            /\ db.audit_logs[j].entity_type = "invoice"
                            /\ db.audit_logs[j].entity_id = db.conversions[i].invoice_id}) = 1
        /\ Cardinality(C24_ConvertedEntries) = Len(db.conversions)

\* C25: the document a builder makes of an item list has one row per item, in the
\* order of the list (numbered from 1 by the unified builder), each with the
\* item's description, unit cost and quantity and the amount unit_cost * quantity;
\* the subtotal is the sum of the amounts and the total that closes the document
\* is that same sum: no tax row, no tax added.
RECURSIVE C25_Sum(_)
C25_Sum(items) == IF items = <<>> THEN 0
                  ELSE items[1].unit_cost * items[1].quantity + C25_Sum(Tail(items))

C25_RowsFollow(doc, items) ==
    /\ Len(doc.rows) = Len(items)
    /\ \A i \in DOMAIN items :
         /\ doc.rows[i].description = items[i].description
         /\ doc.rows[i].unit_cost = items[i].unit_cost
         /\ doc.rows[i].quantity = items[i].quantity
         /\ doc.rows[i].amount = items[i].unit_cost * items[i].quantity

C25_DocumentFollowsItems ==
    \A p \in Procs :
        /\ (pc[p] = "done" /\ req[p].op = "quote_pdf" /\ req[p].resp = "200") =>
             LET items == QuoteItemsOf(db, req[p].entity_id)
                 doc   == req[p].doc
             IN  /\ C25_RowsFollow(doc, items)
                 /\ \A i \in DOMAIN doc.rows : doc.rows[i].idx = i
                 /\ Len(doc.totals) = 2
                 /\ doc.totals[1].label = "Subtotal:" /\ doc.totals[1].amount = C25_Sum(items)
                 /\ doc.totals[2].label = "TOTAL:" /\ doc.totals[2].amount = doc.totals[1].amount
        /\ (pc[p] = "done" /\ req[p].op = "invoice_pdf" /\ req[p].resp = "200") =>
             LET items == InvoiceItemsOf(db, req[p].entity_id)
                 doc   == req[p].doc
             IN  /\ C25_RowsFollow(doc, items)
                 /\ Len(doc.totals) = 1
                 /\ doc.totals[1].label = "TOTAL" /\ doc.totals[1].amount = C25_Sum(items)

\* The document of a quote of two items: rows Setup 100 x 2 = 200 and Support
\* 50 x 1 = 50 in that order, total 250.
C25_Witness ==
    \E p \in Procs :
        /\ pc[p] = "done" /\ req[p].op = "quote_pdf" /\ req[p].resp = "200"
        /\ Len(req[p].doc.rows) = 2
        /\ req[p].doc.rows[1].description = "Setup" /\ req[p].doc.rows[1].amount = 200
        /\ req[p].doc.rows[2].description = "Support" /\ req[p].doc.rows[2].amount = 50
        /\ req[p].doc.totals[Len(req[p].doc.totals)].amount = 250

\* C26: paid only goes from false to true; paid_at and marked_paid_by_id are set
\* once, with paid, and no step changes them on an invoice that is paid or adds an
\* invoice_marked_paid entry for it; an unpaid invoice has neither of the two set.
C26_PaidEntries(d, invoice_id) ==
    {j \in DOMAIN d.audit_logs : /\ d.audit_logs[j].action = "invoice_marked_paid"
                                 /\ d.audit_logs[j].entity_id = invoice_id}

C26_Step ==
    /\ \A v \in Rows(db.invoices) :
         v.paid =>
            /\ Exists(db'.invoices, v.id)
            /\ ById(db'.invoices, v.id) = v
            /\ C26_PaidEntries(db', v.id) = C26_PaidEntries(db, v.id)
    /\ \A w \in Rows(db'.invoices) :
         ~w.paid => (w.paid_at = 0 /\ w.marked_paid_by_id = 0)

C26_PaidSetOnce == [][C26_Step]_vars

\* C27: no step changes the invoice_number, client_id, total or creator of an
\* invoice that is in the committed store, nor its InvoiceItems: of an invoice only
\* paid, paid_at and marked_paid_by_id change.  No step changes an item row that
\* is there, and a step that changes a Service changes no item row at all.
C27_Step ==
    /\ \A v \in Rows(db.invoices) :
         /\ Exists(db'.invoices, v.id)
         /\ ById(db'.invoices, v.id).invoice_number = v.invoice_number
         /\ ById(db'.invoices, v.id).client_id = v.client_id
         /\ ById(db'.invoices, v.id).total = v.total
         /\ ById(db'.invoices, v.id).created_by_id = v.created_by_id
         /\ InvoiceItemsOf(db', v.id) = InvoiceItemsOf(db, v.id)
    /\ Len(db'.invoice_items) >= Len(db.invoice_items)
    /\ SubSeq(db'.invoice_items, 1, Len(db.invoice_items)) = db.invoice_items
    /\ Len(db'.quote_items) >= Len(db.quote_items)
    /\ SubSeq(db'.quote_items, 1, Len(db.quote_items)) = db.quote_items
    /\ db'.services # db.services =>
         (db'.quote_items = db.quote_items /\ db'.invoice_items = db.invoice_items)

C27_InvoiceFrozenButPaid == [][C27_Step]_vars

\* An invoice was marked paid and then a service was updated: the invoice still has
\* its number, total and item.
C27_Witness ==
    \E p \in Procs :
        /\ pc[p] = "done" /\ req[p].op = "update_service"
        /\ db.services[1].name = "Remote Support"
        /\ \E v \in Rows(db.invoices) :
             /\ v.paid /\ v.marked_paid_by_id = 1 /\ v.paid_at = 1
             /\ v.invoice_number = 1 /\ v.total = 150
             /\ Len(InvoiceItemsOf(db, v.id)) = 1

\* C28: the step in which approve_quote (mark_sent) writes leaves the quote with
\* status Approved (Sent), whatever its status was and whether or not it is
\* converted, and appends one audit entry; the converted flag, total, quote_number,
\* client_id, creator and items of the quote are as before and no invoice is added
\* or changed.  Every quote has status Draft, Sent or Approved.
C28_Target(op) == IF op = "approve_quote" THEN "Approved" ELSE "Sent"

C28_Writes(p) == pc[p] = "st_write" /\ pc'[p] = "done"

C28_Frame ==
    /\ \A q \in Rows(db'.quotes) : q.status \in {"Draft", "Sent", "Approved"}
    /\ \A p \in Procs :
         C28_Writes(p) =>
            LET before == ById(db.quotes, req[p].entity_id)
                after  == ById(db'.quotes, req[p].entity_id)
            IN  /\ [after EXCEPT !.status = before.status] = before
                /\ after.status \in {before.status, C28_Target(req[p].op)}
                /\ Len(db'.quotes) = Len(db.quotes)
                /\ db'.quote_items = db.quote_items
                /\ db'.invoices = db.invoices /\ db'.invoice_items = db.invoice_items
                /\ Len(db'.audit_logs) = Len(db.audit_logs) + 1
                /\ db'.audit_logs[Len(db'.audit_logs)].entity_id = req[p].entity_id
                /\ db'.audit_logs[Len(db'.audit_logs)].action
                      = (IF req[p].op = "approve_quote" THEN "quote_approved" ELSE "quote_sent")

C28_Step ==
    /\ C28_Frame
    /\ \A p \in Procs :
         C28_Writes(p) => ById(db'.quotes, req[p].entity_id).status = C28_Target(req[p].op)

C28_StatusSetAndNothingElse == [][C28_Step]_vars

\* C29: when convert_quote answers "Error converting." the store holds no invoice
\* and no invoice item of that request and the quote is not converted; when
\* create_quote answers "Error creating quote." the store holds no quote and no
\* quote item of that request.
C29_ErrorMeansNothingPersisted ==
    \A p \in Procs :
        /\ (pc[p] = "done" /\ req[p].resp = "Error converting.") =>
              /\ ~Exists(db.invoices, req[p].new_id)
              /\ InvoiceItemsOf(db, req[p].new_id) = <<>>
              /\ ~ById(db.quotes, req[p].entity_id).converted
        /\ (pc[p] = "done" /\ req[p].resp = "Error creating quote.") =>
              /\ ~Exists(db.quotes, req[p].new_id)
              /\ QuoteItemsOf(db, req[p].new_id) = <<>>

\* C30: every quote created by a user who is no admin is for a client that same
\* user created; every invoice made by conversion has the client_id of the quote it
\* was made from; and the invoice a convert_quote request commits is unpaid and has
\* the user of that request as its creator.
C30_Ownership(d) ==
    /\ \A q \in Rows(d.quotes) :
         ~IsAdmin(q.created_by_id) =>
            \E c \in Rows(d.clients) : c.id = q.client_id /\ c.created_by_id = q.created_by_id
    /\ \A i \in DOMAIN d.conversions :
         /\ Exists(d.invoices, d.conversions[i].invoice_id)
         /\ ById(d.invoices, d.conversions[i].invoice_id).client_id
               = ById(d.quotes, d.conversions[i].quote_id).client_id

C30_Step ==
    /\ C30_Ownership(db) /\ C30_Ownership(db')
    /\ \A v \in Rows(db'.invoices) :
         ~Exists(db.invoices, v.id) =>
            \E p \in Procs :
                /\ pc[p] = "cv_flushed" /\ pc'[p] = "cv_committed" /\ v.id = req[p].new_id
                /\ ~v.paid /\ v.paid_at = 0 /\ v.marked_paid_by_id = 0
                /\ v.created_by_id = req[p].user_id

C30_OwnershipHeld == [][C30_Step]_vars

\* The admin converted a quote that user 2 created for the client user 2 created:
\* the invoice is the admin's, unpaid, for the quote's client.
C30_Witness ==
    \E p \in Procs :
        /\ pc[p] = "cv_committed" /\ req[p].user_id = 1
        /\ ById(db.quotes, req[p].entity_id).created_by_id = 2
        /\ ById(db.clients, ById(db.quotes, req[p].entity_id).client_id).created_by_id = 2
        /\ ById(db.invoices, req[p].new_id).created_by_id = 1
        /\ ~ById(db.invoices, req[p].new_id).paid
        /\ ById(db.invoices, req[p].new_id).client_id = ById(db.quotes, req[p].entity_id).client_id

====
